---- MODULE Spec2Model ----
(***************************************************************************)
(* Model of the stock analysis session of stock-analysis-api:              *)
(* analysis_engine/indicators.py (TechnicalIndicators),                    *)
(* analysis_engine/analyzer.py (ProfessionalStockAnalyzer),                *)
(* analysis_engine/risk.py (RiskManager) and analysis_engine/model.py.     *)
(*                                                                         *)
(* Positions are the 0-based positions of pandas (iloc); a column is a     *)
(* sequence whose element i+1 is the value at position i.  A float is      *)
(* modelled exactly: NaN, +inf, -inf or a rational n/d in lowest terms.    *)
(***************************************************************************)
EXTENDS Integers, Sequences, FiniteSets

(***************************************************************************)
(* numpy float64 values and arithmetic (exact rationals, NaN, inf)         *)
(***************************************************************************)
NaN == [k |-> "nan", n |-> 0, d |-> 1]
PosInf == [k |-> "inf", n |-> 1, d |-> 1]
NegInf == [k |-> "inf", n |-> -1, d |-> 1]

AbsInt(x) == IF x < 0 THEN -x ELSE x

SignInt(x) == IF x < 0 THEN -1 ELSE IF x > 0 THEN 1 ELSE 0

RECURSIVE GCD(_, _)
GCD(a, b) == IF b = 0 THEN a ELSE GCD(b, a % b)

\* the float n/d (d # 0), kept in lowest terms with a positive denominator
Frac(n, d) ==
    LET g == GCD(AbsInt(n), AbsInt(d))
        s == IF d < 0 THEN -1 ELSE 1
    IN  [k |-> "num", n |-> s * (n \div g), d |-> s * (d \div g)]

Float(x) == [k |-> "num", n |-> x, d |-> 1]

IsNaN(a) == a.k = "nan"

IsFinite(a) == a.k = "num"

\* a < b with a NaN read as the number 0
LtNaNAsZero(a, b) ==
    IF a.k = "inf" /\ b.k = "inf" THEN a.n < b.n
    ELSE IF a.k = "inf" THEN a.n < 0
    ELSE IF b.k = "inf" THEN b.n > 0
    ELSE a.n * b.d < b.n * a.d

\* a < b on floats: False when either side is NaN
Lt(a, b) ==
    /\ a.k # "nan"
    /\ b.k # "nan"
    /\ IF a.k = "num" /\ b.k = "num" THEN a.n * b.d < b.n * a.d
       ELSE IF a.k = "inf" /\ b.k = "inf" THEN a.n < b.n
       ELSE IF a.k = "inf" THEN a.n < 0
       ELSE b.n > 0

Gt(a, b) == Lt(b, a)

Le(a, b) == a.k # "nan" /\ b.k # "nan" /\ ~Lt(b, a)

Ge(a, b) == Le(b, a)

Neg(a) == [a EXCEPT !.n = -a.n]

Add(a, b) ==
    IF a.k = "nan" \/ b.k = "nan" THEN NaN
    ELSE IF a.k = "inf" /\ b.k = "inf" THEN (IF a.n = b.n THEN a ELSE NaN)
    ELSE IF a.k = "inf" THEN a
    ELSE IF b.k = "inf" THEN b
    ELSE Frac(a.n * b.d + b.n * a.d, a.d * b.d)

Sub(a, b) == Add(a, Neg(b))

Mul(a, b) ==
    IF a.k = "nan" \/ b.k = "nan" THEN NaN
    ELSE IF a.k = "inf" \/ b.k = "inf"
         THEN (IF a.n = 0 \/ b.n = 0 THEN NaN
               ELSE [k |-> "inf", n |-> SignInt(a.n) * SignInt(b.n), d |-> 1])
    ELSE Frac(a.n * b.n, a.d * b.d)

\* numpy division: x/0 is +-inf, 0/0 is NaN, x/inf is 0; nothing is raised
Div(a, b) ==
    IF a.k = "nan" \/ b.k = "nan" THEN NaN
    ELSE IF b.k = "inf" THEN (IF a.k = "inf" THEN NaN ELSE Float(0))
    ELSE IF b.n = 0
         THEN (IF a.n = 0 THEN NaN
               ELSE [k |-> "inf", n |-> SignInt(a.n), d |-> 1])
    ELSE IF a.k = "inf"
         THEN [k |-> "inf", n |-> SignInt(a.n) * SignInt(b.n), d |-> 1]
    ELSE Frac(a.n * b.d, a.d * b.n)

Abs(a) == [a EXCEPT !.n = AbsInt(a.n)]

\* Python's builtin min(a, b): b only when b < a, so a NaN first argument stays
PyMin(a, b) == IF Lt(b, a) THEN b ELSE a

\* np.maximum(a, b): NaN when either is NaN
NpMaximum(a, b) ==
    IF a.k = "nan" \/ b.k = "nan" THEN NaN ELSE IF Lt(a, b) THEN b ELSE a

MinInt(a, b) == IF b < a THEN b ELSE a

MaxInt(a, b) == IF b > a THEN b ELSE a

(***************************************************************************)
(* pandas Series helpers                                                   *)
(***************************************************************************)
\* element at 0-based position i
At(col, i) == col[i + 1]

Size(col) == Len(col)

\* sum of an integer column over positions lo..hi
RECURSIVE SumInt(_, _, _)
SumInt(col, lo, hi) ==
    IF lo > hi THEN 0
    ELSE IF lo = hi THEN At(col, lo)
    ELSE LET mid == (lo + hi) \div 2
         IN  SumInt(col, lo, mid) + SumInt(col, mid + 1, hi)

\* sum of a float column over positions lo..hi
RECURSIVE SumFloat(_, _, _)
SumFloat(col, lo, hi) ==
    IF lo > hi THEN Float(0) ELSE Add(At(col, hi), SumFloat(col, lo, hi - 1))

RECURSIVE MinOver(_, _, _)
MinOver(col, lo, hi) ==
    IF lo = hi THEN At(col, lo) ELSE MinInt(At(col, hi), MinOver(col, lo, hi - 1))

RECURSIVE MaxOver(_, _, _)
MaxOver(col, lo, hi) ==
    IF lo = hi THEN At(col, lo) ELSE MaxInt(At(col, hi), MaxOver(col, lo, hi - 1))

\* Series.rolling(window).mean() of an integer column: NaN until window
\* observations exist
RollingMeanInt(col, window) ==
    [j \in 1..Len(col) |->
        IF j < window THEN NaN ELSE Frac(SumInt(col, j - window, j - 1), window)]

\* Series.rolling(window).mean() of a float column: NaN unless the window
\* holds window non-NaN observations (a NaN in the window makes the sum NaN)
RollingMeanFloat(col, window) ==
    [j \in 1..Len(col) |->
        IF j < window THEN NaN
        ELSE Div(SumFloat(col, j - window, j - 1), Float(window))]

(***************************************************************************)
(* Numbers of the form a + b*sqrt(v) (a, b, v floats, v >= 0): the rolling *)
(* standard deviation and what bollinger_bands derives from it             *)
(***************************************************************************)
Surd(a, b, v) == [k |-> "surd", a |-> a, b |-> b, v |-> v]

SurdNaN == [k |-> "nan", a |-> NaN, b |-> NaN, v |-> NaN]

\* a + b*sqrt(v) < 0, for finite a, b, v
SurdNegative(a, b, v) ==
    LET a2 == Mul(a, a)
        b2v == Mul(b, Mul(b, v))
    IN  IF b.n = 0 \/ v.n = 0 THEN a.n < 0
        ELSE IF a.n < 0 /\ b.n < 0 THEN TRUE
        ELSE IF a.n >= 0 /\ b.n > 0 THEN FALSE
        ELSE IF a.n < 0 THEN Lt(b2v, a2)
        ELSE Lt(a2, b2v)

\* x < c and x > c for a surd x and a float c: False when x is NaN
SurdLt(x, c) == x.k # "nan" /\ SurdNegative(Sub(x.a, c), x.b, x.v)

SurdGt(x, c) == x.k # "nan" /\ SurdNegative(Sub(c, x.a), Neg(x.b), x.v)

SurdAddFloat(x, c) == IF x.k = "nan" \/ IsNaN(c) THEN SurdNaN ELSE Surd(Add(x.a, c), x.b, x.v)

SurdScale(x, c) == IF x.k = "nan" THEN SurdNaN ELSE Surd(Mul(x.a, c), Mul(x.b, c), x.v)

\* x - y for two surds over the same radicand
SurdSub(x, y) ==
    IF x.k = "nan" \/ y.k = "nan" THEN SurdNaN
    ELSE Surd(Sub(x.a, y.a), Sub(x.b, y.b), x.v)

\* x / y for surds over the same radicand where y has no rational part
\* (y = b*sqrt(v)); a zero denominator gives NaN for 0/0, else +-inf:
\*   (p + q*sqrt(v)) / (r*sqrt(v)) = q/r + (p/(r*v)) * sqrt(v)
SurdDiv(x, y) ==
    IF x.k = "nan" \/ y.k = "nan" THEN SurdNaN
    ELSE IF y.b.n = 0 \/ y.v.n = 0
         THEN (IF x.a.n = 0 /\ (x.b.n = 0 \/ x.v.n = 0) THEN SurdNaN
               ELSE Surd(Div(x.a, Float(0)), Float(0), Float(0)))
    ELSE Surd(Div(x.b, y.b), Div(x.a, Mul(y.b, y.v)), y.v)

(***************************************************************************)
(* Configuration (analyzer.py, __init__) and the fixed windows             *)
(***************************************************************************)
rsi_window == 14
rsi_overbought == 70
rsi_oversold == 30
bb_window == 20
bb_std == 2
stoch_k == 14
stoch_d == 3
min_signal_strength == 2
risk_per_trade == Frac(2, 100)
williams_window == 14
atr_window == 14
cci_window == 20
WarmUp == 50

(***************************************************************************)
(* TechnicalIndicators (indicators.py)                                     *)
(***************************************************************************)
\* prices.diff() is NaN at position 0, where both delta.where(delta > 0, 0)
\* and delta.where(delta < 0, 0) give 0
Delta(prices, j) == IF j = 1 THEN 0 ELSE prices[j] - prices[j - 1]

\* rolling(window, min_periods=1).mean() of an integer column
RollingMeanMin1(col, window) ==
    [j \in 1..Len(col) |->
        LET lo == MaxInt(1, j - window + 1)
        IN  Frac(SumInt(col, lo - 1, j - 1), j - lo + 1)]

\* loss.replace(0, np.inf)
ReplaceZeroByInf(a) == IF a.k = "num" /\ a.n = 0 THEN PosInf ELSE a

rsi(prices, window) ==
    LET up == [j \in 1..Len(prices) |-> MaxInt(Delta(prices, j), 0)]
        down == [j \in 1..Len(prices) |-> -MinInt(Delta(prices, j), 0)]
        gain == RollingMeanMin1(up, window)
        loss == RollingMeanMin1(down, window)
    IN  [j \in 1..Len(prices) |->
            LET rs == Div(gain[j], ReplaceZeroByInf(loss[j]))
            IN  Sub(Float(100), Div(Float(100), Add(Float(1), rs)))]

\* rolling(window).std() squared: the sample variance (n*Q - S^2)/(n*(n-1))
RollingVar(prices, window) ==
    LET sq == [j \in 1..Len(prices) |-> prices[j] * prices[j]]
    IN  [j \in 1..Len(prices) |->
            IF j < window THEN NaN
            ELSE LET S == SumInt(prices, j - window, j - 1)
                     Q == SumInt(sq, j - window, j - 1)
                 IN  Frac(window * Q - S * S, window * (window - 1))]

\* (upper_band, sma, lower_band); a band is sma +- std_dev * sqrt(variance)
bollinger_bands(prices, window, std_dev) ==
    LET sma == RollingMeanInt(prices, window)
        var == RollingVar(prices, window)
        band(j, c) == IF IsNaN(sma[j]) THEN SurdNaN ELSE Surd(sma[j], Float(c), var[j])
    IN  [upper |-> [j \in 1..Len(prices) |-> band(j, std_dev)],
         middle |-> sma,
         lower |-> [j \in 1..Len(prices) |-> band(j, -std_dev)]]

\* low.rolling(window).min() and high.rolling(window).max()
RollingMin(col, window) ==
    [j \in 1..Len(col) |->
        IF j < window THEN NaN ELSE Float(MinOver(col, j - window, j - 1))]

RollingMax(col, window) ==
    [j \in 1..Len(col) |->
        IF j < window THEN NaN ELSE Float(MaxOver(col, j - window, j - 1))]

\* (k_percent, d_percent)
stochastic(high, low, close, k_window, d_window) ==
    LET lowest_low == RollingMin(low, k_window)
        highest_high == RollingMax(high, k_window)
        k_percent == [j \in 1..Len(close) |->
            LET ll == lowest_low[j]
            IN  Div(Mul(Float(100), Sub(Float(close[j]), ll)),
                    Sub(highest_high[j], ll))]
    IN  [k |-> k_percent, d |-> RollingMeanFloat(k_percent, d_window)]

williams_r(high, low, close, window) ==
    LET highest_high == RollingMax(high, window)
        lowest_low == RollingMin(low, window)
    IN  [j \in 1..Len(close) |->
            LET hh == highest_high[j]
            IN  Div(Mul(Float(-100), Sub(hh, Float(close[j]))),
                    Sub(hh, lowest_low[j]))]

\* np.maximum(high - low, np.maximum(|high - close.shift()|,
\* |low - close.shift()|)): close.shift() is NaN at position 0 and
\* np.maximum keeps the NaN
TrueRange(high, low, close) ==
    [j \in 1..Len(close) |->
        IF j = 1 THEN NaN
        ELSE Float(MaxInt(high[j] - low[j],
                          MaxInt(AbsInt(high[j] - close[j - 1]),
                                 AbsInt(low[j] - close[j - 1]))))]

atr(high, low, close, window) ==
    RollingMeanFloat(TrueRange(high, low, close), window)

\* typical_price = T/3 with T = high + low + close; over a full window with
\* S the sum of T and D the sum of |window*T_m - S|:
\*   typical_price - sma = (window*T - S) / (3*window)
\*   mean_deviation      = D / (3*window*window)
cci(high, low, close, window) ==
    LET T == [j \in 1..Len(close) |-> high[j] + low[j] + close[j]]
    IN  [j \in 1..Len(close) |->
            IF j < window THEN NaN
            ELSE LET S == SumInt(T, j - window, j - 1)
                     dev == [m \in 1..Len(close) |-> AbsInt(window * T[m] - S)]
                     D == SumInt(dev, j - window, j - 1)
                 IN  Div(Frac(window * T[j] - S, 3 * window),
                         Mul(Frac(15, 1000), Frac(D, 3 * window * window)))]

(***************************************************************************)
(* The price series a session is given (analyzer.py, _fetch_data):         *)
(* ticker.history() supplies a non-empty series of bars in chronological   *)
(* order with low <= close <= high.  The series are piecewise linear: a    *)
(* first close p0 and segments <<bars, slope>>; high and low lie spread    *)
(* above and below the close.                                              *)
(***************************************************************************)
Spreads == {0, 1}

MaxMacdPhase == 1

Scenarios ==
    { [p0 |-> 100, segs |-> << <<5, 1>> >>],
      [p0 |-> 100, segs |-> << <<14, 0>> >>],
      [p0 |-> 100, segs |-> << <<15, -1>> >>],
      [p0 |-> 100, segs |-> << <<40, -1>>, <<3, 1>>, <<17, -1>>, <<4, 1>> >>],
      [p0 |-> 100, segs |-> << <<45, 1>>, <<12, -1>>, <<8, 1>>, <<5, 0>> >>],
      [p0 |-> 10, segs |-> << <<16, 0>> >>],
      [p0 |-> 50, segs |-> << <<56, 0>> >>],
      [p0 |-> 100, segs |-> << <<56, 1>> >>],
      [p0 |-> 100, segs |-> << <<190, 0>>, <<10, -1>>, <<40, 1>> >>],
      [p0 |-> 100, segs |-> << <<200, 0>>, <<10, -1>>, <<40, 1>> >>] }

RECURSIVE Bars(_, _)
Bars(segs, k) == IF k = 0 THEN 0 ELSE segs[k][1] + Bars(segs, k - 1)

\* the close at position i: p0 plus the slope of the segment of each of the
\* positions 1..i
RECURSIVE Rise(_, _, _)
Rise(segs, k, i) ==
    IF k = 0 THEN 0
    ELSE LET first == MaxInt(1, Bars(segs, k - 1))
             last == MinInt(i, Bars(segs, k) - 1)
         IN  segs[k][2] * MaxInt(0, last - first + 1) + Rise(segs, k - 1, i)

History(sc, spread) ==
    LET n == Bars(sc.segs, Len(sc.segs))
        close == [j \in 1..n |-> sc.p0 + Rise(sc.segs, Len(sc.segs), j - 1)]
    IN  [Close |-> close,
         High |-> [j \in 1..n |-> close[j] + spread],
         Low |-> [j \in 1..n |-> close[j] - spread]]

\* the DatetimeIndex of the series: trading days, five a week
TradingDay(i) == 7 * (i \div 5) + (i % 5)

\* Series.pct_change(): NaN at position 0
PctChange(prices) ==
    [j \in 1..Len(prices) |->
        IF j = 1 THEN NaN ELSE Frac(prices[j] - prices[j - 1], prices[j - 1])]

(***************************************************************************)
(* pandas' ewm arithmetic (TechnicalIndicators.macd) is floating point     *)
(* over the whole history and is not computed here: the MACD line and its  *)
(* signal line are a defined value at every position, given by an          *)
(* oscillation of the MACD line around the signal line.                    *)
(***************************************************************************)
MacdHalfPeriod == 5

macd(prices, phase) ==
    LET line(i) == LET r == (i + phase) % (2 * MacdHalfPeriod)
                   IN  IF r = 0 \/ r = MacdHalfPeriod THEN 0
                       ELSE IF r < MacdHalfPeriod THEN 1 ELSE -1
    IN  [macd_line |-> [j \in 1..Len(prices) |-> Float(line(j - 1))],
         signal_line |-> [j \in 1..Len(prices) |-> Float(0)]]

(***************************************************************************)
(* The session: ProfessionalStockAnalyzer                                  *)
(***************************************************************************)
VARIABLES
    data,          \* self.data: column name -> column
    index,         \* self.data.index: the timestamp of each position
    ewm_phase,     \* what the ewm arithmetic yields for this series
    config,        \* self.config: the window and period options
    signals,       \* self.signals
    risk_metrics,  \* self.risk_metrics (None until computed)
    last_call      \* the call that finished last and what it raised

vars == <<data, index, ewm_phase, config, signals, risk_metrics, last_call>>

\* a call that returned or raised; repeated: the call before it was the same
Raised(op, exception) ==
    [op |-> op, args |-> <<>>, raised |-> exception,
     repeated |-> last_call.op = op]

Returned(op) == Raised(op, "none")

None == [k |-> "None"]

Columns == DOMAIN data

Length == Len(data.Close)

\* self.config as __init__ builds it
DefaultConfig ==
    [rsi_window |-> rsi_window, macd_fast |-> 12, macd_slow |-> 26,
     macd_signal |-> 9, bb_window |-> bb_window, stoch_k |-> stoch_k,
     stoch_d |-> stoch_d]

\* self.config with one option overwritten by the caller with a value that
\* is not positive.  The values are ones every pandas release rejects:
\* rolling(window, min_periods=1) needs window >= 1, ewm(span) needs
\* span >= 1 and rolling(window) needs window >= 0.
Overwritten ==
    { <<"rsi_window", 0>>, <<"macd_slow", -1>>, <<"bb_window", -1>>, <<"stoch_d", -1>> }

InvalidConfigs == {[DefaultConfig EXCEPT ![o[1]] = o[2]] : o \in Overwritten}

\* the series on which the configuration is varied
Reconfigured ==
    { [p0 |-> 100, segs |-> << <<14, 0>> >>],
      [p0 |-> 100, segs |-> << <<56, 1>> >>] }

\* __init__ and _fetch_data, and self.config as the caller leaves it before
\* the first call
Init ==
    /\ \E sc \in Scenarios, spread \in Spreads :
          LET h == History(sc, spread)
          IN  /\ data = [Close |-> h.Close, High |-> h.High, Low |-> h.Low,
                         Returns |-> PctChange(h.Close)]
              /\ index = [j \in 1..Len(h.Close) |-> TradingDay(j - 1)]
              /\ config \in IF sc \in Reconfigured
                             THEN {DefaultConfig} \cup InvalidConfigs
                             ELSE {DefaultConfig}
    /\ ewm_phase \in 0..MaxMacdPhase
    /\ signals = <<>>
    /\ risk_metrics = None
    /\ last_call = [op |-> "__init__", args |-> <<>>, raised |-> "none",
                    repeated |-> FALSE]

\* self.data[name] = column, for every pair of cols
SetColumns(df, cols) ==
    [c \in DOMAIN df \cup DOMAIN cols |-> IF c \in DOMAIN cols THEN cols[c] ELSE df[c]]

IndicatorColumns(df, phase) ==
    LET bb == bollinger_bands(df.Close, bb_window, bb_std)
        st == stochastic(df.High, df.Low, df.Close, stoch_k, stoch_d)
        m == macd(df.Close, phase)
    IN  [SMA_10 |-> RollingMeanInt(df.Close, 10),
         SMA_20 |-> RollingMeanInt(df.Close, 20),
         SMA_50 |-> RollingMeanInt(df.Close, 50),
         SMA_200 |-> RollingMeanInt(df.Close, 200),
         RSI |-> rsi(df.Close, rsi_window),
         MACD |-> m.macd_line,
         MACD_Signal |-> m.signal_line,
         BB_Upper |-> bb.upper,
         BB_Middle |-> bb.middle,
         BB_Lower |-> bb.lower,
         Stoch_K |-> st.k,
         Stoch_D |-> st.d,
         Williams_R |-> williams_r(df.High, df.Low, df.Close, williams_window),
         ATR |-> atr(df.High, df.Low, df.Close, atr_window),
         CCI |-> cci(df.High, df.Low, df.Close, cci_window)]

\* the _calculate_* steps in the order calculate_all_indicators runs them,
\* each with the columns it assigns
Steps ==
    << {"SMA_10", "SMA_20", "SMA_50", "SMA_200"},
       {"RSI"},
       {"MACD", "MACD_Signal"},
       {"BB_Upper", "BB_Middle", "BB_Lower"},
       {"Stoch_K", "Stoch_D"},
       {"Williams_R"},
       {"ATR"},
       {"CCI"} >>

\* the first step whose rolling() or ewm() call raises ValueError for the
\* options of cfg; Len(Steps) + 1 when none does
FailingStep(cfg) ==
    IF cfg.rsi_window < 1 THEN 2
    ELSE IF cfg.macd_fast < 1 \/ cfg.macd_slow < 1 \/ cfg.macd_signal < 1 THEN 3
    ELSE IF cfg.bb_window < 0 THEN 4
    ELSE IF cfg.stoch_k < 0 \/ cfg.stoch_d < 0 THEN 5
    ELSE Len(Steps) + 1

\* the columns the steps before the failing one have assigned
ColumnsBefore(df, phase, step) ==
    LET all == IndicatorColumns(df, phase)
        done == UNION {Steps[k] : k \in 1..(step - 1)}
    IN  [c \in done |-> all[c]]

\* Every column is computed from Close, High and Low, which no call assigns:
\* a pass over a session that holds the columns stores the same columns.
calculate_all_indicators ==
    /\ config = DefaultConfig
    /\ data' = IF "RSI" \in Columns THEN data
               ELSE SetColumns(data, IndicatorColumns(data, ewm_phase))
    /\ last_call' = Returned("calculate_all_indicators")
    /\ UNCHANGED <<index, ewm_phase, config, signals, risk_metrics>>

\* a step raises: the except clause logs and raises again, and the columns
\* of the steps before it stay in self.data
calculate_all_indicators_ValueError ==
    /\ FailingStep(config) <= Len(Steps)
    /\ data' = SetColumns(data, ColumnsBefore(data, ewm_phase, FailingStep(config)))
    /\ last_call' = Raised("calculate_all_indicators", "ValueError")
    /\ UNCHANGED <<index, ewm_phase, config, signals, risk_metrics>>

(***************************************************************************)
(* generate_advanced_signals: the rules of one scanned position            *)
(***************************************************************************)
Cur(df, c, i) == At(df[c], i)

\* (current['Close'] - current['BB_Lower']) /
\* (current['BB_Upper'] - current['BB_Lower'])
BB_Position(df, i) ==
    LET lower == Cur(df, "BB_Lower", i)
        upper == Cur(df, "BB_Upper", i)
    IN  SurdDiv(SurdAddFloat(SurdScale(lower, Float(-1)), Float(Cur(df, "Close", i))),
                SurdSub(upper, lower))

indicators_dict(df, i) ==
    [RSI |-> Cur(df, "RSI", i),
     MACD |-> Cur(df, "MACD", i),
     MACD_Signal |-> Cur(df, "MACD_Signal", i),
     BB_Position |-> BB_Position(df, i),
     Stoch_K |-> Cur(df, "Stoch_K", i),
     Williams_R |-> Cur(df, "Williams_R", i),
     CCI |-> Cur(df, "CCI", i)]

Fire(delta, reason) == << [delta |-> delta, reason |-> reason] >>

RsiRule(df, i) ==
    IF Lt(Cur(df, "RSI", i), Float(rsi_oversold)) THEN Fire(2, "RSI Oversold")
    ELSE IF Gt(Cur(df, "RSI", i), Float(rsi_overbought)) THEN Fire(-2, "RSI Overbought")
    ELSE <<>>

MacdRule(df, i) ==
    IF /\ Gt(Cur(df, "MACD", i), Cur(df, "MACD_Signal", i))
       /\ Le(Cur(df, "MACD", i - 1), Cur(df, "MACD_Signal", i - 1))
    THEN Fire(3, "MACD Bullish Crossover")
    ELSE IF /\ Lt(Cur(df, "MACD", i), Cur(df, "MACD_Signal", i))
            /\ Ge(Cur(df, "MACD", i - 1), Cur(df, "MACD_Signal", i - 1))
    THEN Fire(-3, "MACD Bearish Crossover")
    ELSE <<>>

BollingerRule(df, i) ==
    LET bb_position == BB_Position(df, i)
    IN  IF SurdLt(bb_position, Frac(1, 10)) THEN Fire(2, "Below BB Lower Band")
        ELSE IF SurdGt(bb_position, Frac(9, 10)) THEN Fire(-2, "Above BB Upper Band")
        ELSE <<>>

StochasticRule(df, i) ==
    LET k == Cur(df, "Stoch_K", i)
        d == Cur(df, "Stoch_D", i)
        pk == Cur(df, "Stoch_K", i - 1)
        pd == Cur(df, "Stoch_D", i - 1)
    IN  IF Lt(k, Float(20)) /\ Lt(d, Float(20)) /\ Gt(k, d) /\ Le(pk, pd)
        THEN Fire(2, "Stochastic Bullish Crossover")
        ELSE IF Gt(k, Float(80)) /\ Gt(d, Float(80)) /\ Lt(k, d) /\ Ge(pk, pd)
        THEN Fire(-2, "Stochastic Bearish Crossover")
        ELSE <<>>

WilliamsRule(df, i) ==
    IF Lt(Cur(df, "Williams_R", i), Float(-80)) THEN Fire(1, "Williams %R Oversold")
    ELSE IF Gt(Cur(df, "Williams_R", i), Float(-20)) THEN Fire(-1, "Williams %R Overbought")
    ELSE <<>>

CciRule(df, i) ==
    IF Lt(Cur(df, "CCI", i), Float(-100)) THEN Fire(1, "CCI Oversold")
    ELSE IF Gt(Cur(df, "CCI", i), Float(100)) THEN Fire(-1, "CCI Overbought")
    ELSE <<>>

Sma20Rule(df, i) ==
    IF /\ Gt(Float(Cur(df, "Close", i)), Cur(df, "SMA_20", i))
       /\ Le(Float(Cur(df, "Close", i - 1)), Cur(df, "SMA_20", i - 1))
    THEN Fire(1, "Price Above SMA20")
    ELSE IF /\ Lt(Float(Cur(df, "Close", i)), Cur(df, "SMA_20", i))
            /\ Ge(Float(Cur(df, "Close", i - 1)), Cur(df, "SMA_20", i - 1))
    THEN Fire(-1, "Price Below SMA20")
    ELSE <<>>

\* the cross rules on the current bar alone: SMA_50 above or below SMA_200
CrossRuleLevel(df, i) ==
    IF Gt(Cur(df, "SMA_50", i), Cur(df, "SMA_200", i)) THEN Fire(4, "Golden Cross")
    ELSE IF Lt(Cur(df, "SMA_50", i), Cur(df, "SMA_200", i)) THEN Fire(-4, "Death Cross")
    ELSE <<>>

CrossRule(df, i) ==
    IF /\ Gt(Cur(df, "SMA_50", i), Cur(df, "SMA_200", i))
       /\ Le(Cur(df, "SMA_50", i - 1), Cur(df, "SMA_200", i - 1))
    THEN Fire(4, "Golden Cross")
    ELSE IF /\ Lt(Cur(df, "SMA_50", i), Cur(df, "SMA_200", i))
            /\ Ge(Cur(df, "SMA_50", i - 1), Cur(df, "SMA_200", i - 1))
    THEN Fire(-4, "Death Cross")
    ELSE <<>>

\* the rules in another order: CCI before Williams %R
FiredCciFirst(df, i) ==
    RsiRule(df, i) \o MacdRule(df, i) \o BollingerRule(df, i)
        \o StochasticRule(df, i) \o CciRule(df, i) \o WilliamsRule(df, i)
        \o Sma20Rule(df, i) \o CrossRule(df, i)

\* the rules that fire at position i, in the order the loop body evaluates them
Fired(df, i) ==
    RsiRule(df, i) \o MacdRule(df, i) \o BollingerRule(df, i)
        \o StochasticRule(df, i) \o WilliamsRule(df, i) \o CciRule(df, i)
        \o Sma20Rule(df, i) \o CrossRule(df, i)

RECURSIVE SumDeltas(_, _)
SumDeltas(fired, k) == IF k = 0 THEN 0 ELSE fired[k].delta + SumDeltas(fired, k - 1)

\* signal_score and reasons after the rules of position i
signal_score(df, i) == LET f == Fired(df, i) IN SumDeltas(f, Len(f))

reasons(df, i) == LET f == Fired(df, i) IN [k \in 1..Len(f) |-> f[k].reason]

\* a threshold the score must exceed
EmitsAbove(score) == AbsInt(score) > min_signal_strength

Emits(score) == AbsInt(score) >= min_signal_strength

SignalTypeOf(score) == IF score > 0 THEN "BUY" ELSE "SELL"

\* the buckets with strict bounds
StrengthOfStrict(score) ==
    LET strength_value == Frac(MinInt(AbsInt(score), 6), 2)
    IN  IF Lt(strength_value, Frac(15, 10)) THEN "WEAK"
        ELSE IF Lt(strength_value, Frac(25, 10)) THEN "MODERATE"
        ELSE "STRONG"

StrengthOf(score) ==
    LET strength_value == Frac(MinInt(AbsInt(score), 6), 2)
    IN  IF Le(strength_value, Frac(15, 10)) THEN "WEAK"
        ELSE IF Le(strength_value, Frac(25, 10)) THEN "MODERATE"
        ELSE "STRONG"

ConfidenceOf(score) == PyMin(Div(Float(AbsInt(score)), Float(8)), Float(1))

TradingSignal(df, idx, i, f) ==
    LET score == SumDeltas(f, Len(f))
    IN  [date |-> At(idx, i),
         signal_type |-> SignalTypeOf(score),
         strength |-> StrengthOf(score),
         price |-> Cur(df, "Close", i),
         indicators |-> indicators_dict(df, i),
         reasons |-> [k \in 1..Len(f) |-> f[k].reason],
         confidence |-> ConfidenceOf(score)]

\* one pass of the loop body: what position i appends to self.signals
Step(df, idx, i) ==
    LET f == Fired(df, i)
    IN  IF Emits(SumDeltas(f, Len(f)))
        THEN << TradingSignal(df, idx, i, f) >>
        ELSE <<>>

\* the passes in descending order of position
RECURSIVE ScanBackwards(_, _, _, _)
ScanBackwards(df, idx, lo, hi) ==
    IF lo > hi THEN <<>>
    ELSE IF lo = hi THEN Step(df, idx, lo)
    ELSE LET mid == (lo + hi) \div 2
         IN  ScanBackwards(df, idx, mid + 1, hi) \o ScanBackwards(df, idx, lo, mid)

\* what the passes for i = lo, ..., hi append, in that order
RECURSIVE Scan(_, _, _, _)
Scan(df, idx, lo, hi) ==
    IF lo > hi THEN <<>>
    ELSE IF lo = hi THEN Step(df, idx, lo)
    ELSE LET mid == (lo + hi) \div 2
         IN  Scan(df, idx, lo, mid) \o Scan(df, idx, mid + 1, hi)

\* the positions the loop visits: range(50, len(self.data))
Scanned == WarmUp..(Length - 1)

\* the list left as the call before built it
KeptList == signals

\* self.signals = [] before the loop
EmptyList == <<>>

\* the columns the loop body reads
ReadColumns ==
    {"Close", "RSI", "MACD", "MACD_Signal", "BB_Lower", "BB_Upper", "Stoch_K",
     "Stoch_D", "Williams_R", "CCI", "SMA_20", "SMA_50", "SMA_200"}

\* current[...] raises KeyError when the column is missing
generate_advanced_signals ==
    /\ Scanned = {} \/ ReadColumns \subseteq Columns
    /\ signals' = EmptyList \o Scan(data, index, WarmUp, Length - 1)
    /\ last_call' = Returned("generate_advanced_signals")
    /\ UNCHANGED <<data, index, ewm_phase, config, risk_metrics>>

generate_advanced_signals_KeyError ==
    /\ Scanned # {}
    /\ ~(ReadColumns \subseteq Columns)
    /\ signals' = EmptyList
    /\ last_call' = Raised("generate_advanced_signals", "KeyError")
    /\ UNCHANGED <<data, index, ewm_phase, config, risk_metrics>>

(***************************************************************************)
(* RiskManager (risk.py) and calculate_risk_metrics                        *)
(***************************************************************************)
\* ---------------------------------------------------------------------
\* binary64 arithmetic, to the bit.  A natural number beyond the machine
\* word is the sequence of its binary digits, least significant first, with
\* no leading zero (0 is the empty sequence); a positive float64 is
\* [m, e], the number m * 2^e with m odd.  The recursions halve their
\* range, and settle the lower half before the upper half is entered.
Precision == 53

Ones(b) == {i \in 1..Len(b) : b[i] = 1}

Highest(S) == CHOOSE i \in S : \A j \in S : j <= i

Lowest(S) == CHOOSE i \in S : \A j \in S : i <= j

Trim(b) == IF Ones(b) = {} THEN <<>> ELSE SubSeq(b, 1, Highest(Ones(b)))

RECURSIVE BitsOf(_)
BitsOf(n) == IF n = 0 THEN <<>> ELSE <<n % 2>> \o BitsOf(n \div 2)

Digit(b, i) == IF i <= Len(b) THEN b[i] ELSE 0

\* the digits lo..hi of a + b + carry, and the carry out of them
RECURSIVE AddDigits(_, _, _, _, _)
AddDigits(a, b, lo, hi, carry) ==
    IF lo = hi
    THEN LET s == Digit(a, lo) + Digit(b, lo) + carry
         IN  [digits |-> <<s % 2>>, carry |-> s \div 2]
    ELSE LET mid == (lo + hi) \div 2
             lower == AddDigits(a, b, lo, mid, carry)
             upper == IF lower.carry = 0
                      THEN AddDigits(a, b, mid + 1, hi, 0)
                      ELSE AddDigits(a, b, mid + 1, hi, 1)
         IN  [digits |-> lower.digits \o upper.digits, carry |-> upper.carry]

BigAdd(a, b) ==
    LET n == IF Len(a) < Len(b) THEN Len(b) ELSE Len(a)
        sum == AddDigits(a, b, 1, n, 0)
    IN  IF n = 0 THEN <<>> ELSE Trim(sum.digits \o <<sum.carry>>)

\* the digits lo..hi of a - b - borrow, and the borrow out of them
RECURSIVE SubDigits(_, _, _, _, _)
SubDigits(a, b, lo, hi, borrow) ==
    IF lo = hi
    THEN LET s == Digit(a, lo) - Digit(b, lo) - borrow
         IN  [digits |-> <<(s + 2) % 2>>, borrow |-> IF s < 0 THEN 1 ELSE 0]
    ELSE LET mid == (lo + hi) \div 2
             lower == SubDigits(a, b, lo, mid, borrow)
             upper == IF lower.borrow = 0
                      THEN SubDigits(a, b, mid + 1, hi, 0)
                      ELSE SubDigits(a, b, mid + 1, hi, 1)
         IN  [digits |-> lower.digits \o upper.digits, borrow |-> upper.borrow]

\* a - b for a >= b
BigSub(a, b) == IF a = <<>> THEN <<>> ELSE Trim(SubDigits(a, b, 1, Len(a), 0).digits)

BigLess(a, b) ==
    IF Len(a) # Len(b) THEN Len(a) < Len(b)
    ELSE LET differ == {i \in 1..Len(a) : a[i] # b[i]}
         IN  differ # {} /\ a[Highest(differ)] < b[Highest(differ)]

ShiftLeft(a, k) == IF a = <<>> THEN <<>> ELSE [i \in 1..k |-> 0] \o a

ShiftRight(a, k) == IF k >= Len(a) THEN <<>> ELSE SubSeq(a, k + 1, Len(a))

LowBits(a, k) == Trim(SubSeq(a, 1, IF k < Len(a) THEN k ELSE Len(a)))

\* a times the digits lo..hi of b
RECURSIVE MulDigits(_, _, _, _)
MulDigits(a, b, lo, hi) ==
    IF hi < lo THEN <<>>
    ELSE IF lo = hi THEN (IF b[lo] = 1 THEN ShiftLeft(a, lo - 1) ELSE <<>>)
    ELSE LET mid == (lo + hi) \div 2
         IN  BigAdd(MulDigits(a, b, lo, mid), MulDigits(a, b, mid + 1, hi))

BigMul(a, b) ==
    IF Len(a) < Len(b) THEN MulDigits(b, a, 1, Len(a))
    ELSE MulDigits(a, b, 1, Len(b))

\* long division of a by b # 0: digit i of a taken into [q, r], r < b
DivDigit(a, b, i, qr) ==
    LET shifted == Trim(<<a[i]>> \o qr.r)
        fits == ~BigLess(shifted, b)
    IN  [q |-> <<IF fits THEN 1 ELSE 0>> \o qr.q,
         r |-> IF fits THEN BigSub(shifted, b) ELSE shifted]

\* the digits hi, hi - 1, .. lo of a taken into [q, r], r < b
RECURSIVE DivDigits(_, _, _, _, _)
DivDigits(a, b, hi, lo, qr) ==
    IF hi < lo THEN qr
    ELSE IF hi = lo THEN DivDigit(a, b, hi, qr)
    ELSE LET mid == (hi + lo) \div 2
             upper == DivDigits(a, b, hi, mid + 1, qr)
         IN  IF BigLess(upper.r, b)
             THEN DivDigits(a, b, mid, lo, upper)
             ELSE upper

\* for Len(a) >= Len(b): the leading Len(b) - 1 digits of a are below b
BigDivMod(a, b) ==
    LET rest == Len(a) - Len(b) + 1
        qr == DivDigits(a, b, rest, 1,
                        [q |-> <<>>, r |-> Trim(SubSeq(a, rest + 1, Len(a)))])
    IN  [q |-> Trim(qr.q), r |-> qr.r]

\* m * 2^e with the trailing zeros of m moved into e
Odd(m, e) ==
    IF Ones(m) = {} THEN [m |-> <<>>, e |-> 0]
    ELSE [m |-> SubSeq(m, Lowest(Ones(m)), Len(m)),
          e |-> e + Lowest(Ones(m)) - 1]

\* the float64 nearest to m * 2^e, ties to even
RoundToNearest(m, e) ==
    IF Len(m) <= Precision THEN Odd(m, e)
    ELSE LET s == Len(m) - Precision
             q == ShiftRight(m, s)
             dropped == LowBits(m, s)
             half == ShiftLeft(<<1>>, s - 1)
             up == BigLess(half, dropped) \/ (dropped = half /\ Head(q) = 1)
         IN  Odd(IF up THEN BigAdd(q, <<1>>) ELSE q, e + s)

Binary64(n) == Odd(BitsOf(n), 0)

F64Mul(x, y) == RoundToNearest(BigMul(x.m, y.m), x.e + y.e)

Aligned(x, e) == ShiftLeft(x.m, x.e - e)

F64Add(x, y) ==
    LET e == IF x.e < y.e THEN x.e ELSE y.e
    IN  RoundToNearest(BigAdd(Aligned(x, e), Aligned(y, e)), e)

\* x - y for x >= y
F64Sub(x, y) ==
    LET e == IF x.e < y.e THEN x.e ELSE y.e
    IN  RoundToNearest(BigSub(Aligned(x, e), Aligned(y, e)), e)

\* x / y for y # 0: the quotient to Precision + 2 digits or more, then a
\* digit that says whether anything is left, then rounded
F64Div(x, y) ==
    LET s == Precision + 3 + Len(y.m) - Len(x.m)
        d == BigDivMod(ShiftLeft(x.m, s), y.m)
        sticky == IF d.r = <<>> THEN 0 ELSE 1
    IN  RoundToNearest(Trim(<<sticky>> \o d.q), x.e - y.e - s - 1)

RECURSIVE FromHex(_)
FromHex(digits) ==
    IF digits = <<>> THEN <<>>
    ELSE BigAdd(BitsOf(digits[Len(digits)]),
                ShiftLeft(FromHex(SubSeq(digits, 1, Len(digits) - 1)), 4))

\* the literal 0.02: 0x147AE147AE147B * 2^-58
Literal_0_02 ==
    Odd(FromHex(<<1, 4, 7, 10, 14, 1, 4, 7, 10, 14, 1, 4, 7, 11>>), -58)

RECURSIVE IntOf(_)
IntOf(b) == IF b = <<>> THEN 0 ELSE Head(b) + 2 * IntOf(Tail(b))

RECURSIVE Pow2(_)
Pow2(k) == IF k = 0 THEN 1 ELSE 2 * Pow2(k - 1)

\* the float64 nearest to a positive rational n/d
ToBinary64(v) == F64Div(Binary64(v.n), Binary64(v.d))

\* a float64 as the rational it is when the machine word holds it, else as
\* its digits
FromBinary64(f) ==
    IF Len(f.m) <= 20 /\ f.e \in -20..10
    THEN IF f.e < 0 THEN Frac(IntOf(f.m), Pow2(-f.e))
         ELSE Float(IntOf(f.m) * Pow2(f.e))
    ELSE [k |-> "binary64", m |-> f.m, e |-> f.e]

calculate_position_size(account_balance, risk, stop_loss_pct) ==
    LET risk_amount == Mul(account_balance, risk)
        position_size == Div(risk_amount, stop_loss_pct)
    IN  PyMin(position_size, Mul(account_balance, Frac(1, 10)))

\* drawdown.min() with drawdown = (prices - peak) / peak and peak the
\* expanding maximum, for positive prices.  Over positions lo..hi, with the
\* peaks taken inside lo..hi: [max, min, dd].  At a position of the right
\* half the peak is the larger of the left half's maximum and the right
\* half's own peak there, so the ratio is the smaller of the two quotients.
\* the least drawdown of the two halves, each with its own peaks
RECURSIVE DrawdownWithinHalves(_, _, _)
DrawdownWithinHalves(prices, lo, hi) ==
    IF lo = hi
    THEN [max |-> At(prices, lo), min |-> At(prices, lo), dd |-> Float(0)]
    ELSE LET mid == (lo + hi) \div 2
             left == DrawdownWithinHalves(prices, lo, mid)
             right == DrawdownWithinHalves(prices, mid + 1, hi)
         IN  [max |-> MaxInt(left.max, right.max),
              min |-> MinInt(left.min, right.min),
              dd |-> PyMin(left.dd, right.dd)]

RECURSIVE Drawdown(_, _, _)
Drawdown(prices, lo, hi) ==
    IF lo = hi
    THEN [max |-> At(prices, lo), min |-> At(prices, lo), dd |-> Float(0)]
    ELSE LET mid == (lo + hi) \div 2
             left == Drawdown(prices, lo, mid)
             right == Drawdown(prices, mid + 1, hi)
             across == Frac(right.min - left.max, left.max)
         IN  [max |-> MaxInt(left.max, right.max),
              min |-> MinInt(left.min, right.min),
              dd |-> PyMin(PyMin(left.dd, right.dd), across)]

calculate_max_drawdown(prices) == Drawdown(prices, 0, Len(prices) - 1).dd

Balances == {100000, 50000}

\* the ATR the risk figures use: the column's last value when the column
\* exists, else 2% of the price
AtrOrFallback(df, current_price) ==
    IF "ATR" \in DOMAIN df THEN At(df.ATR, Len(df.ATR) - 1)
    ELSE Mul(current_price, Frac(2, 100))

\* abs(take_profit - current_price) / abs(current_price - stop_loss) as
\* float64 computes it, each operation rounded, for 0 < 2 * atr < price
risk_reward_ratio(current_price, atr_value) ==
    LET stop_loss == F64Sub(current_price, F64Mul(Binary64(2), atr_value))
        take_profit == F64Add(current_price, F64Mul(Binary64(3), atr_value))
    IN  F64Div(F64Sub(take_profit, current_price),
               F64Sub(current_price, stop_loss))

\* the last bar of a series: its close, the ATR the risk figures use and
\* whether that ATR is the column's.  The column's last value is the sum of
\* the window's true ranges, an integer, divided by the window.
LastBar(price, atr_value, column) ==
    [price |-> price, atr |-> atr_value, column |-> column]

LastBars ==
    UNION {LET h == History(sc, spread)
               n == Len(h.Close)
           IN  {LastBar(h.Close[n], Mul(Float(h.Close[n]), Frac(2, 100)), FALSE),
                LastBar(h.Close[n],
                        At(atr(h.High, h.Low, h.Close, atr_window), n - 1), TRUE)}
           : sc \in Scenarios, spread \in Spreads}

\* risk_reward_ratio over the last bars whose ATR is a positive number,
\* computed once for each
RiskReward ==
    [bar \in {b \in LastBars : IsFinite(b.atr) /\ Gt(b.atr, Float(0))} |->
        FromBinary64(risk_reward_ratio(
            Binary64(bar.price),
            IF bar.column THEN ToBinary64(bar.atr)
            ELSE F64Mul(Binary64(bar.price), Literal_0_02)))]

\* volatility (the standard deviation of Returns times sqrt(252)) is not a
\* rational number and is left out of the record.  stop_loss, take_profit
\* and position_size are the real numbers the floats stand for;
\* risk_reward_ratio is the float64 itself where the ATR is a positive
\* number, and NaN where the ATR is NaN or 0.
RiskMetrics(df, account_balance) ==
    LET price == At(df.Close, Len(df.Close) - 1)
        current_price == Float(price)
        atr_value == AtrOrFallback(df, current_price)
        stop_loss == Sub(current_price, Mul(Float(2), atr_value))
        take_profit == Add(current_price, Mul(Float(3), atr_value))
        stop_loss_pct == Div(Abs(Sub(current_price, stop_loss)), current_price)
        bar == LastBar(price, atr_value, "ATR" \in DOMAIN df)
    IN  [k |-> "RiskMetrics",
         stop_loss |-> stop_loss,
         take_profit |-> take_profit,
         risk_reward_ratio |->
            IF bar \in DOMAIN RiskReward THEN RiskReward[bar]
            ELSE Div(Abs(Sub(take_profit, current_price)),
                     Abs(Sub(current_price, stop_loss))),
         position_size |-> calculate_position_size(Float(account_balance),
                                                   risk_per_trade, stop_loss_pct),
         max_drawdown |-> calculate_max_drawdown(df.Close)]

calculate_risk_metrics ==
    \E account_balance \in Balances :
        /\ risk_metrics' = RiskMetrics(data, account_balance)
        /\ last_call' = [Returned("calculate_risk_metrics")
                            EXCEPT !.args = <<account_balance>>]
        /\ UNCHANGED <<data, index, ewm_phase, config, signals>>

Next ==
    \/ calculate_all_indicators
    \/ calculate_all_indicators_ValueError
    \/ generate_advanced_signals
    \/ generate_advanced_signals_KeyError
    \/ calculate_risk_metrics

Spec == Init /\ [][Next]_vars

(***************************************************************************)
(* Properties                                                              *)
(***************************************************************************)
Completed(op) == last_call.op = op /\ last_call.raised = "none"

\* self.signals is the list the last call built, over the columns self.data
\* holds now
Generated == Completed("generate_advanced_signals")

\* the places of self.signals that hold a signal for bar i
SignalsAt(i) == {k \in 1..Len(signals) : signals[k].date = At(index, i)}

Undefined(v) == v.k = "nan"

\* the rule table of the signal engine: the sixteen rules in evaluation
\* order, place being the position of the rule's pair in that order
RuleTable ==
    << [place |-> 1, reason |-> "RSI Oversold", delta |-> 2],
       [place |-> 1, reason |-> "RSI Overbought", delta |-> -2],
       [place |-> 2, reason |-> "MACD Bullish Crossover", delta |-> 3],
       [place |-> 2, reason |-> "MACD Bearish Crossover", delta |-> -3],
       [place |-> 3, reason |-> "Below BB Lower Band", delta |-> 2],
       [place |-> 3, reason |-> "Above BB Upper Band", delta |-> -2],
       [place |-> 4, reason |-> "Stochastic Bullish Crossover", delta |-> 2],
       [place |-> 4, reason |-> "Stochastic Bearish Crossover", delta |-> -2],
       [place |-> 5, reason |-> "Williams %R Oversold", delta |-> 1],
       [place |-> 5, reason |-> "Williams %R Overbought", delta |-> -1],
       [place |-> 6, reason |-> "CCI Oversold", delta |-> 1],
       [place |-> 6, reason |-> "CCI Overbought", delta |-> -1],
       [place |-> 7, reason |-> "Price Above SMA20", delta |-> 1],
       [place |-> 7, reason |-> "Price Below SMA20", delta |-> -1],
       [place |-> 8, reason |-> "Golden Cross", delta |-> 4],
       [place |-> 8, reason |-> "Death Cross", delta |-> -4] >>

Places == {RuleTable[j].place : j \in 1..Len(RuleTable)}

TableReasons == {RuleTable[j].reason : j \in 1..Len(RuleTable)}

TableEntry(reason) ==
    RuleTable[CHOOSE j \in 1..Len(RuleTable) : RuleTable[j].reason = reason]

\* the sum of the table's deltas over the first k names of a reason list
RECURSIVE TableSum(_, _)
TableSum(rs, k) ==
    IF k = 0 THEN 0 ELSE TableEntry(rs[k]).delta + TableSum(rs, k - 1)

Has(rs, reason) == \E k \in 1..Len(rs) : rs[k] = reason

\* what the pair of rules at a place adds to the score of position i
RECURSIVE PlaceSum(_, _, _)
PlaceSum(f, place, k) ==
    IF k = 0 THEN 0
    ELSE (IF TableEntry(f[k].reason).place = place THEN f[k].delta ELSE 0)
             + PlaceSum(f, place, k - 1)

Contribution(df, i, place) == LET f == Fired(df, i) IN PlaceSum(f, place, Len(f))

\* the condition of the rules at a place reads, at position i or i - 1, a
\* value that is undefined
ReadsUndefined(df, i, place) ==
    CASE place = 1 -> Undefined(Cur(df, "RSI", i))
      [] place = 2 -> \E c \in {"MACD", "MACD_Signal"}, j \in {i - 1, i} :
                          Undefined(Cur(df, c, j))
      [] place = 3 -> \/ \E c \in {"BB_Upper", "BB_Lower"} : Undefined(Cur(df, c, i))
                      \/ Undefined(BB_Position(df, i))
      [] place = 4 -> \E c \in {"Stoch_K", "Stoch_D"}, j \in {i - 1, i} :
                          Undefined(Cur(df, c, j))
      [] place = 5 -> Undefined(Cur(df, "Williams_R", i))
      [] place = 6 -> Undefined(Cur(df, "CCI", i))
      [] place = 7 -> \E j \in {i - 1, i} : Undefined(Cur(df, "SMA_20", j))
      [] place = 8 -> \E c \in {"SMA_50", "SMA_200"}, j \in {i - 1, i} :
                          Undefined(Cur(df, c, j))

\* C1: after generate_advanced_signals, a signal for bar i is in the list if
\* and only if |score_i| >= min_signal_strength, for every scanned position
\* i; it is a BUY when score_i > 0 and a SELL otherwise; the list holds
\* nothing else, and no HOLD.
C1_EmittedIffScoreReachesThreshold ==
    Generated =>
        /\ \A i \in Scanned :
              LET score == signal_score(data, i)
              IN  /\ (SignalsAt(i) # {}) <=> (AbsInt(score) >= min_signal_strength)
                  /\ \A k \in SignalsAt(i) :
                        signals[k].signal_type = IF score > 0 THEN "BUY" ELSE "SELL"
        /\ LET dates == {At(index, i) : i \in Scanned}
           IN  \A k \in 1..Len(signals) :
                   /\ signals[k].signal_type \in {"BUY", "SELL"}
                   /\ signals[k].date \in dates

\* a scan that emitted a BUY and a SELL and passed over bars whose score is
\* 1, -1 and 0
C1_Witness ==
    /\ Generated
    /\ \E k \in 1..Len(signals) : signals[k].signal_type = "BUY"
    /\ \E k \in 1..Len(signals) : signals[k].signal_type = "SELL"
    /\ \A v \in {-1, 0, 1} :
          \E i \in Scanned : signal_score(data, i) = v /\ SignalsAt(i) = {}

\* the window of rolling(rsi_window, min_periods=1) that ends at position i
\* holds no negative delta: the average loss is exactly 0
NoLossInWindow(i) ==
    \A j \in MaxInt(1, i - rsi_window + 1)..i :
        At(data.Close, j) >= At(data.Close, j - 1)

\* C2: where the average loss over the RSI window is exactly 0 the RSI is
\* 100, and the RSI Oversold rule does not fire there.
C2_RsiIs100WithoutLoss ==
    ReadColumns \subseteq Columns =>
        \A i \in 0..(Length - 1) :
            NoLossInWindow(i) =>
                /\ At(data.RSI, i) = Float(100)
                /\ i \in Scanned => ~Has(reasons(data, i), "RSI Oversold")

\* C3: at every scanned position each value a rule reads, at the position
\* and at the one before it, is defined.
C3_EveryValueReadIsDefined ==
    ReadColumns \subseteq Columns =>
        \A i \in Scanned : \A place \in Places : ~ReadsUndefined(data, i, place)

\* C4: a scan over the indicator columns does not raise, and at every
\* scanned position the rules whose condition reads an undefined value do
\* not fire: they add nothing to the score and no reason, in the step and in
\* the signal it emits.
C4_UndefinedValueFiresNoRule ==
    /\ (last_call.op = "generate_advanced_signals" /\ ReadColumns \subseteq Columns)
          => last_call.raised = "none"
    /\ Generated =>
          \A i \in Scanned : \A place \in Places :
              ReadsUndefined(data, i, place) =>
                  /\ Contribution(data, i, place) = 0
                  /\ \A e \in {RuleTable[j] : j \in 1..Len(RuleTable)} :
                        e.place = place =>
                            /\ ~Has(reasons(data, i), e.reason)
                            /\ \A k \in SignalsAt(i) :
                                  ~Has(signals[k].reasons, e.reason)

\* a scan that emitted a signal at a position where the Bollinger position,
\* the Stochastic lines, Williams %R, CCI and SMA_200 are all undefined
C4_Witness ==
    /\ Generated
    /\ \E i \in Scanned :
          /\ \A place \in {3, 4, 5, 6, 8} : ReadsUndefined(data, i, place)
          /\ SignalsAt(i) # {}

\* C5: after generate_advanced_signals the strength of every signal is WEAK for |score| <= 3,
\* MODERATE for |score| in {4, 5} and STRONG for |score| >= 6, and its
\* confidence is min(|score|/8, 1), a number in [0, 1].
C5_StrengthAndConfidenceFollowScore ==
    Generated =>
        \A i \in Scanned : \A k \in SignalsAt(i) :
            LET a == AbsInt(signal_score(data, i))
            IN  /\ signals[k].strength =
                       IF a <= 3 THEN "WEAK"
                       ELSE IF a <= 5 THEN "MODERATE" ELSE "STRONG"
                /\ signals[k].confidence = IF a >= 8 THEN Float(1) ELSE Frac(a, 8)
                /\ Le(Float(0), signals[k].confidence)
                /\ Le(signals[k].confidence, Float(1))

\* a list with a signal for each |score| from 2 to 6 and for one above 8
C5_Witness ==
    /\ Generated
    /\ \A a \in {2, 3, 4, 5, 6, 9} :
          \E i \in Scanned : SignalsAt(i) # {} /\ AbsInt(signal_score(data, i)) = a

\* C6: the timestamps of the series being strictly ascending, the list
\* generate_advanced_signals builds is strictly ascending by date: a bar has
\* at most one signal and the signal of bar i comes before that of any bar
\* j > i.
C6_SignalsAscendByDate ==
    Generated =>
        /\ \A k \in 1..(Len(signals) - 1) : signals[k].date < signals[k + 1].date
        /\ \A i \in Scanned : Cardinality(SignalsAt(i)) <= 1

\* a list of at least three signals, two of them for bars that are not
\* neighbours
C6_Witness ==
    /\ Generated
    /\ \A j \in 1..(Len(index) - 1) : index[j] < index[j + 1]
    /\ Len(signals) >= 3
    /\ \E i \in Scanned, j \in Scanned :
          j > i + 1 /\ SignalsAt(i) # {} /\ SignalsAt(i + 1) = {} /\ SignalsAt(j) # {}

\* C7: at every scanned position the rules that fire are rules of the
\* table, each with the table's delta, at most one of each pair and in
\* evaluation order; the score is the sum of the table's deltas of those
\* rules; the signal emitted there carries exactly their names in that
\* order, and its type and confidence are those of that sum.
C7_ReasonsAndScoreFollowTable ==
    Generated =>
        \A i \in Scanned :
            LET f == Fired(data, i)
                rs == reasons(data, i)
                sum == TableSum(rs, Len(rs))
            IN  /\ \A k \in 1..Len(f) :
                      /\ f[k].reason \in TableReasons
                      /\ f[k].delta = TableEntry(f[k].reason).delta
                      /\ rs[k] = f[k].reason
                /\ \A k \in 1..(Len(f) - 1) :
                      TableEntry(f[k].reason).place < TableEntry(f[k + 1].reason).place
                /\ signal_score(data, i) = sum
                /\ \A k \in SignalsAt(i) :
                      /\ signals[k].reasons = rs
                      /\ signals[k].signal_type = IF sum > 0 THEN "BUY" ELSE "SELL"
                      /\ signals[k].confidence =
                             IF AbsInt(sum) >= 8 THEN Float(1) ELSE Frac(AbsInt(sum), 8)

\* a signal with four reasons, and a bar where rules fired and cancelled out
C7_Witness ==
    /\ Generated
    /\ \E k \in 1..Len(signals) : Len(signals[k].reasons) >= 4
    /\ \E i \in Scanned :
          Len(reasons(data, i)) >= 2 /\ signal_score(data, i) = 0 /\ SignalsAt(i) = {}

Sma50Above(df, j) == Gt(Cur(df, "SMA_50", j), Cur(df, "SMA_200", j))

Sma50Below(df, j) == Lt(Cur(df, "SMA_50", j), Cur(df, "SMA_200", j))

\* the scanned positions where SMA_50 goes from below SMA_200 to above it
UpCrossings(df) ==
    {t \in Scanned : Sma50Below(df, t - 1) /\ Sma50Above(df, t)}

\* the Golden Cross rule adds +4 at position t and neither cross rule adds
\* anything at another scanned position
GoldenCrossOnlyAt(df, t) ==
    \A i \in Scanned :
        /\ Contribution(df, i, 8) = IF i = t THEN 4 ELSE 0
        /\ Has(reasons(df, i), "Golden Cross") <=> (i = t)
        /\ ~Has(reasons(df, i), "Death Cross")

\* C8 as stated: SMA_50 goes from below SMA_200 to above it exactly once, at
\* the scanned position t; then Golden Cross adds +4 at t and neither cross
\* rule adds anything at another scanned position.
C8_GoldenCrossOnlyAtTheUpCrossing ==
    ReadColumns \subseteq Columns =>
        \A t \in Scanned : UpCrossings(data) = {t} => GoldenCrossOnlyAt(data, t)

\* SMA_50 is below SMA_200 at every position before t where both are
\* defined, the position t - 1 among them, and above it from t on
BelowUntilAboveFrom(df, t) ==
    /\ Sma50Below(df, t - 1)
    /\ \A j \in 0..(t - 1) :
          Undefined(Cur(df, "SMA_50", j)) \/ Undefined(Cur(df, "SMA_200", j))
              \/ Sma50Below(df, j)
    /\ \A j \in t..(Length - 1) : Sma50Above(df, j)

\* C8: SMA_50 is strictly below SMA_200 wherever both are defined before
\* the scanned position t, and strictly above it from t on; then Golden
\* Cross adds +4 at t and neither cross rule adds anything at another
\* scanned position, in the steps and in the signals of the list.
C8_GoldenCrossAfterStrictlyBelow ==
    Generated =>
        \A t \in Scanned :
            BelowUntilAboveFrom(data, t) =>
                /\ GoldenCrossOnlyAt(data, t)
                /\ \A k \in 1..Len(signals) :
                      /\ Has(signals[k].reasons, "Golden Cross") <=> k \in SignalsAt(t)
                      /\ ~Has(signals[k].reasons, "Death Cross")

\* a scan of a series whose SMA_50 starts below SMA_200 and crosses above
\* it, with the signal of the crossing in the list
C8_Witness ==
    /\ Generated
    /\ \E t \in Scanned :
          /\ BelowUntilAboveFrom(data, t)
          /\ SignalsAt(t) # {}
          /\ \E i \in Scanned : i < t /\ ~Undefined(Cur(data, "SMA_200", i))

\* C9: whatever calls came before, after generate_advanced_signals the
\* session holds the list one call over its columns builds, and after
\* calculate_risk_metrics the snapshot one call builds: a repeated call
\* replaces what the call before left and adds nothing to it.
C9_CallsReplaceWhatTheyLeft ==
    /\ Generated => signals = Scan(data, index, WarmUp, Length - 1)
    /\ Completed("calculate_risk_metrics") =>
          \E account_balance \in Balances :
              risk_metrics = RiskMetrics(data, account_balance)

\* generate_advanced_signals called twice in a row, on a session that holds
\* a risk snapshot, with a list that is not empty
C9_Witness ==
    /\ Generated
    /\ last_call.repeated
    /\ Len(signals) >= 2
    /\ risk_metrics # None

\* the ATR of the last bar is undefined: no ATR column, or NaN at the last
\* position
AtrUndefinedAtLastBar ==
    \/ "ATR" \notin Columns
    \/ Undefined(At(data.ATR, Length - 1))

\* C10: when the ATR of the last bar is undefined, calculate_risk_metrics
\* uses 2% of the last close in its place: stop_loss is 0.96 and take_profit
\* 1.06 times the last close.
C10_FallbackWhenAtrUndefined ==
    (Completed("calculate_risk_metrics") /\ AtrUndefinedAtLastBar) =>
        LET price == Float(At(data.Close, Length - 1))
        IN  /\ risk_metrics.stop_loss = Mul(Frac(96, 100), price)
            /\ risk_metrics.take_profit = Mul(Frac(106, 100), price)

\* the columns self.data holds when __init__ returns
FetchedColumns == {"Close", "High", "Low", "Returns"}

\* C11: with a window or period option that is not positive,
\* calculate_all_indicators raises, and when it has raised self.data holds
\* no indicator column: the columns are the ones it held before the call.
C11_InvalidConfigRejectedBeforeAnyColumn ==
    (last_call.op = "calculate_all_indicators"
        /\ \E option \in DOMAIN config : config[option] <= 0)
    => /\ last_call.raised # "none"
       /\ Columns = FetchedColumns

\* C12: calculate_all_indicators does not change the series the session
\* was given: when it has returned, that series, which self.data names,
\* holds the columns it held when __init__ returned and no others.
C12_SeriesKeepsItsColumns ==
    Completed("calculate_all_indicators") => DOMAIN data = FetchedColumns

\* the largest price so far at each of the positions lo..hi, the largest
\* before lo given
RECURSIVE PeaksOver(_, _, _, _)
PeaksOver(prices, lo, hi, before) ==
    IF lo = hi
    THEN <<MaxInt(before, prices[lo])>>
    ELSE LET mid == (lo + hi) \div 2
             left == PeaksOver(prices, lo, mid, before)
         IN  left \o PeaksOver(prices, mid + 1, hi, left[Len(left)])

\* the expanding maximum of each close series a session can hold
ExpandingMax ==
    [prices \in {History(sc, 0).Close : sc \in Scenarios} |->
        PeaksOver(prices, 1, Len(prices), prices[1])]

\* the largest close up to and including position t
PeakAt(t) == ExpandingMax[data.Close][t + 1]

DrawdownAt(t) == Frac(At(data.Close, t) - PeakAt(t), PeakAt(t))

NonDecreasing ==
    \A t \in 1..(Length - 1) : At(data.Close, t) >= At(data.Close, t - 1)

\* C13: over positive closes the max_drawdown of the snapshot is the least
\* of (close_t - peak_t)/peak_t over the positions t; it is <= 0, and it is
\* 0 if and only if the closes never decrease.
C13_MaxDrawdownIsLeastRatioToPeak ==
    Completed("calculate_risk_metrics") =>
        LET dd == risk_metrics.max_drawdown
        IN  /\ \A t \in 0..(Length - 1) : At(data.Close, t) > 0
            /\ \A t \in 0..(Length - 1) : Le(dd, DrawdownAt(t))
            /\ \E t \in 0..(Length - 1) : dd = DrawdownAt(t)
            /\ Le(dd, Float(0))
            /\ (dd = Float(0)) <=> NonDecreasing

\* a snapshot of a series that falls and recovers, whose largest drawdown
\* is not at its last bar
C13_Witness ==
    /\ Completed("calculate_risk_metrics")
    /\ Lt(risk_metrics.max_drawdown, DrawdownAt(Length - 1))
    /\ Lt(DrawdownAt(Length - 1), Float(0))
    /\ \E t \in 1..(Length - 1) : At(data.Close, t) > At(data.Close, t - 1)

\* the smaller of two floats
Least(a, b) == IF Lt(a, b) THEN a ELSE b

\* |price - stop_loss| of the snapshot, price being the last close
StopDistance == Abs(Sub(Float(At(data.Close, Length - 1)), risk_metrics.stop_loss))

\* C14: for a snapshot whose stop distance is a number other than 0,
\* position_size = min(balance * risk_per_trade / stop_loss_pct,
\* 0.1 * balance), so position_size <= 0.1 * balance, and
\* risk_reward_ratio is exactly 1.5.
C14_PositionSizeCappedAndRatio ==
    (Completed("calculate_risk_metrics") /\ IsFinite(StopDistance)
        /\ StopDistance # Float(0))
    => LET balance == Float(last_call.args[1])
           price == Float(At(data.Close, Length - 1))
           stop_loss_pct == Div(StopDistance, price)
           cap == Mul(balance, Frac(1, 10))
       IN  /\ risk_metrics.position_size =
                  Least(Div(Mul(balance, risk_per_trade), stop_loss_pct), cap)
           /\ Le(risk_metrics.position_size, cap)
           /\ risk_metrics.risk_reward_ratio = Frac(3, 2)

====
